---- MODULE Spec2Model ----
(***************************************************************************)
(* Model of ethpm/validation/uri.py (registry-URI, authority, version,     *)
(* chain-match and blob-hash validators) and of                            *)
(* web3/middleware/validation.py (chain-id and extraData validation in     *)
(* the formatting middleware).                                             *)
(*                                                                         *)
(* Python strings are sequences of one-character strings; bytes are        *)
(* sequences of integers in 0..255.  Each validator is an operator that    *)
(* returns the outcome of the call: Ok, or the exception it raises.        *)
(***************************************************************************)
EXTENDS Integers, Sequences, FiniteSets, TLC

VARIABLES fn, args, outcome,
          pc, method, params, node_chain_id, sent, response, mw_outcome

vars == <<fn, args, outcome, pc, method, params, node_chain_id, sent, response, mw_outcome>>
uri_vars == <<fn, args, outcome>>
mw_vars == <<pc, method, params, node_chain_id, sent, response, mw_outcome>>

(***************************************************************************)
(* Bounds of the input sets.                                               *)
(***************************************************************************)
MaxAuthPieces == 5
MaxQueryPieces == 4
MaxCandidates == 4
MaxContentLen == 3
MaxDataLen == 34

(***************************************************************************)
(* Strings.                                                                *)
(***************************************************************************)
RECURSIVE SeqsUpTo(_, _)
SeqsUpTo(S, n) ==
  IF n = 0 THEN {<<>>}
  ELSE LET shorter == SeqsUpTo(S, n - 1)
       IN  shorter \cup {Append(s, c) : s \in {t \in shorter : Len(t) = n - 1}, c \in S}

RECURSIVE Flatten(_)
Flatten(ss) == IF ss = <<>> THEN <<>> ELSE Head(ss) \o Flatten(Tail(ss))

Least(I) == CHOOSE i \in I : \A j \in I : i <= j

\* str.find(c): the 1-based index of the first c in s, 0 when there is none
Find(s, c) ==
  LET found == {i \in 1..Len(s) : s[i] = c}
  IN  IF found = {} THEN 0 ELSE Least(found)

\* the 1-based index, from position `from` on, of the first character of s
\* that is in the set D, 0 when there is none
FindAnyFrom(s, D, from) ==
  LET found == {i \in from..Len(s) : s[i] \in D}
  IN  IF found = {} THEN 0 ELSE Least(found)

\* str.split(c)
RECURSIVE Split(_, _)
Split(s, c) ==
  LET i == Find(s, c)
  IN  IF i = 0 THEN <<s>>
      ELSE <<SubSeq(s, 1, i - 1)>> \o Split(SubSeq(s, i + 1, Len(s)), c)

\* str.split(c, 1)
Split1(s, c) ==
  LET i == Find(s, c)
  IN  IF i = 0 THEN <<s>>
      ELSE <<SubSeq(s, 1, i - 1), SubSeq(s, i + 1, Len(s))>>

\* str.strip(c)
RECURSIVE LStrip(_, _)
LStrip(s, c) == IF s # <<>> /\ Head(s) = c THEN LStrip(Tail(s), c) ELSE s

RECURSIVE RStrip(_, _)
RStrip(s, c) ==
  IF s # <<>> /\ s[Len(s)] = c THEN RStrip(SubSeq(s, 1, Len(s) - 1), c) ELSE s

Strip(s, c) == RStrip(LStrip(s, c), c)

Digits == {"0", "1", "2", "3", "4", "5", "6", "7", "8", "9"}
UpperCase == {"E", "R", "C"}
LowerCase == {"a", "b", "c", "d", "e", "f", "g", "h", "i", "j", "k", "l", "m",
              "n", "o", "p", "q", "r", "s", "t", "u", "v", "w", "x", "y", "z"}
Alpha == UpperCase \cup LowerCase

LowerChar(c) ==
  CASE c = "E" -> "e" [] c = "R" -> "r" [] c = "C" -> "c" [] OTHER -> c

Lower(s) == [i \in 1..Len(s) |-> LowerChar(s[i])]

DigitVal(c) ==
  CASE c = "0" -> 0 [] c = "1" -> 1 [] c = "2" -> 2 [] c = "3" -> 3 [] c = "4" -> 4
    [] c = "5" -> 5 [] c = "6" -> 6 [] c = "7" -> 7 [] c = "8" -> 8 [] c = "9" -> 9

(***************************************************************************)
(* Outcomes of a call.                                                     *)
(***************************************************************************)
Ok == [exc |-> "none", msg |-> "none"]
Returned(v) == [exc |-> "none", msg |-> "none", value |-> v]
EthPMValidationError(m) == [exc |-> "EthPMValidationError", msg |-> m]
ValueError(m) == [exc |-> "ValueError", msg |-> m]
UnicodeDecodeError == [exc |-> "UnicodeDecodeError", msg |-> "invalid utf-8"]
ValidationError(m) == [exc |-> "ValidationError", msg |-> m]
IndexError == [exc |-> "IndexError", msg |-> "not enough values"]

Raised(o) == o.exc # "none"

(***************************************************************************)
(* urllib.parse.urlparse, for the components validate_registry_uri reads.  *)
(***************************************************************************)
SchemeChars == Alpha \cup Digits \cup {"+", "-", "."}

urlparse(url) ==
  LET i == Find(url, ":")
      hasScheme == /\ i > 1
                   /\ url[1] \in Alpha
                   /\ \A k \in 1..(i - 1) : url[k] \in SchemeChars
      scheme == IF hasScheme THEN Lower(SubSeq(url, 1, i - 1)) ELSE <<>>
      rest1 == IF hasScheme THEN SubSeq(url, i + 1, Len(url)) ELSE url
      hasNetloc == Len(rest1) >= 2 /\ rest1[1] = "/" /\ rest1[2] = "/"
      delim == IF hasNetloc THEN FindAnyFrom(rest1, {"/", "?", "#"}, 3) ELSE 0
      netloc == IF ~hasNetloc THEN <<>>
                ELSE IF delim = 0 THEN SubSeq(rest1, 3, Len(rest1))
                ELSE SubSeq(rest1, 3, delim - 1)
      rest2 == IF ~hasNetloc THEN rest1
               ELSE IF delim = 0 THEN <<>>
               ELSE SubSeq(rest1, delim, Len(rest1))
      rest3 == Split1(rest2, "#")[1]
      pq == Split1(rest3, "?")
  IN  [scheme |-> scheme,
       netloc |-> netloc,
       path |-> pq[1],
       query |-> IF Len(pq) = 2 THEN pq[2] ELSE <<>>]

(***************************************************************************)
(* External collaborators of the validators.                               *)
(***************************************************************************)
DotEth == <<".", "e", "t", "h">>

\* is_ens_domain(authority), of ethpm/_utils/registry.py: a domain-style
\* name, taken here to be one that ends in ".eth"
is_ens_domain(authority) ==
  Len(authority) >= 4 /\ SubSeq(authority, Len(authority) - 3, Len(authority)) = DotEth

\* an address in its checksummed mixed-case form, and the same address in
\* lower case, which does not carry the checksum
ChecksumAddress ==
  <<"0", "x", "5", "a", "A", "e", "b", "6", "0", "5", "3", "F", "3", "E",
    "9", "4", "C", "9", "b", "9", "A", "0", "9", "f", "3", "3", "6", "6",
    "9", "4", "3", "5", "E", "7", "E", "f", "1", "B", "e", "A", "e", "d">>
LowerCaseAddress ==
  <<"0", "x", "5", "a", "a", "e", "b", "6", "0", "5", "3", "f", "3", "e",
    "9", "4", "c", "9", "b", "9", "a", "0", "9", "f", "3", "3", "6", "6",
    "9", "4", "3", "5", "e", "7", "e", "f", "1", "b", "e", "a", "e", "d">>

\* eth_utils.is_checksum_address(value): the keccak checksum is not computed;
\* of the strings the alphabets below build, the one that carries a valid
\* checksum is ChecksumAddress
is_checksum_address(value) == value = ChecksumAddress

\* ethpm/constants.py: the scheme of "erc1319://..." registry URIs
REGISTRY_URI_SCHEME == <<"e", "r", "c", "1", "3", "1", "9">>

\* ethpm/_utils/chains.py: the ids the UnsupportedChainID message lists,
\* 1 (mainnet), 3 (ropsten), 4 (rinkeby), 5 (goerli) and 42 (kovan)
SUPPORTED_CHAIN_IDS == {1, 3, 4, 5, 42}

is_supported_chain_id(chain_id) == chain_id \in SUPPORTED_CHAIN_IDS

\* eth_utils.to_int(text=s) is int(s): an optional sign and decimal digits,
\* anything else raises ValueError (the alphabets below hold no whitespace
\* and no underscore, which int() also tolerates)
RECURSIVE DecimalValue(_)
DecimalValue(s) ==
  IF s = <<>> THEN 0
  ELSE 10 * DecimalValue(SubSeq(s, 1, Len(s) - 1)) + DigitVal(s[Len(s)])

to_int(text) ==
  LET signed == text # <<>> /\ Head(text) \in {"+", "-"}
      digits == IF signed THEN Tail(text) ELSE text
      parses == digits # <<>> /\ \A k \in 1..Len(digits) : digits[k] \in Digits
  IN  IF ~parses THEN [ok |-> FALSE, value |-> 0]
      ELSE [ok |-> TRUE,
            value |-> IF signed /\ Head(text) = "-"
                      THEN 0 - DecimalValue(digits) ELSE DecimalValue(digits)]

(***************************************************************************)
(* ethpm/validation/uri.py                                                 *)
(***************************************************************************)
validate_registry_uri_scheme(scheme) ==
  IF scheme # REGISTRY_URI_SCHEME
  THEN EthPMValidationError("InvalidURIScheme")
  ELSE Ok

\* a mutant: the chain id is checked before the identity
authority_chain_first(auth) ==
  LET parts == Split(auth, ":")
  IN  IF Len(parts) # 2 THEN EthPMValidationError("MalformedAuthority")
      ELSE IF ~to_int(parts[2]).ok THEN ValueError("invalid literal for int()")
      ELSE IF ~is_supported_chain_id(to_int(parts[2]).value)
           THEN EthPMValidationError("UnsupportedChainID")
      ELSE IF is_ens_domain(parts[1]) = FALSE /\ ~is_checksum_address(parts[1])
           THEN EthPMValidationError("InvalidAuthorityIdentity")
      ELSE Ok

\* a mutant: the parts after the second are dropped instead of rejected
authority_truncating(auth) ==
  LET parts == Split(auth, ":")
  IN  IF Len(parts) < 2 THEN EthPMValidationError("MalformedAuthority")
      ELSE IF is_ens_domain(parts[1]) = FALSE /\ ~is_checksum_address(parts[1])
           THEN EthPMValidationError("InvalidAuthorityIdentity")
      ELSE IF ~to_int(parts[2]).ok THEN ValueError("invalid literal for int()")
      ELSE IF ~is_supported_chain_id(to_int(parts[2]).value)
           THEN EthPMValidationError("UnsupportedChainID")
      ELSE Ok

validate_registry_uri_authority(auth) ==
  LET parts == Split(auth, ":")
  IN  IF Len(parts) # 2 THEN EthPMValidationError("MalformedAuthority")
      ELSE IF is_ens_domain(parts[1]) = FALSE /\ ~is_checksum_address(parts[1])
           THEN EthPMValidationError("InvalidAuthorityIdentity")
      ELSE IF ~to_int(parts[2]).ok THEN ValueError("invalid literal for int()")
      ELSE IF ~is_supported_chain_id(to_int(parts[2]).value)
           THEN EthPMValidationError("UnsupportedChainID")
      ELSE Ok

\* pkg_ok, below: whether validate_package_name(pkg_name) returns normally
\* (the package-name grammar is an external validator)

\* urllib.parse.parse_qs(query, keep_blank_values): the set of keys of the
\* dictionary it returns (the alphabets below hold no '%' and no '+', so
\* unquoting a key leaves it as it is)
parse_qs_keys(query, keep_blank_values) ==
  LET pairs == Split(query, "&")
      Kept(nv) == /\ nv # <<>>
                  /\ IF Find(nv, "=") = 0 THEN keep_blank_values
                     ELSE Split1(nv, "=")[2] # <<>> \/ keep_blank_values
  IN  {Split1(pairs[k], "=")[1] : k \in {j \in 1..Len(pairs) : Kept(pairs[j])}}

VersionKey == <<"v", "e", "r", "s", "i", "o", "n">>

\* a mutant: parse_qs with its default keep_blank_values=False
version_dropping_blanks(query) ==
  IF VersionKey \notin parse_qs_keys(query, FALSE)
  THEN EthPMValidationError("MissingVersionKey")
  ELSE Ok

validate_registry_uri_version(query) ==
  IF VersionKey \notin parse_qs_keys(query, TRUE)
  THEN EthPMValidationError("MissingVersionKey")
  ELSE Ok

\* a mutant: the path/query checks run before the authority check
registry_uri_path_first(uri, pkg_ok) ==
  LET parsed == urlparse(uri)
      pkg_name == Strip(parsed.path, "/")
      r_scheme == validate_registry_uri_scheme(parsed.scheme)
      r_auth == validate_registry_uri_authority(parsed.netloc)
  IN  IF Raised(r_scheme) THEN r_scheme
      ELSE IF pkg_name # <<>> /\ ~pkg_ok THEN EthPMValidationError("InvalidPackageName")
      ELSE IF pkg_name = <<>> /\ parsed.query # <<>>
           THEN EthPMValidationError("MissingPackageName")
      ELSE IF Raised(r_auth) THEN r_auth
      ELSE IF parsed.query # <<>> THEN validate_registry_uri_version(parsed.query)
      ELSE Ok

\* a mutant: the empty-package-name check is left out
registry_uri_no_name_check(uri, pkg_ok) ==
  LET parsed == urlparse(uri)
      pkg_name == Strip(parsed.path, "/")
      r_scheme == validate_registry_uri_scheme(parsed.scheme)
      r_auth == validate_registry_uri_authority(parsed.netloc)
  IN  IF Raised(r_scheme) THEN r_scheme
      ELSE IF Raised(r_auth) THEN r_auth
      ELSE IF pkg_name # <<>> /\ ~pkg_ok THEN EthPMValidationError("InvalidPackageName")
      ELSE IF parsed.query # <<>> THEN validate_registry_uri_version(parsed.query)
      ELSE Ok

validate_registry_uri(uri, pkg_ok) ==
  LET parsed == urlparse(uri)
      pkg_name == Strip(parsed.path, "/")
      r_scheme == validate_registry_uri_scheme(parsed.scheme)
      r_auth == validate_registry_uri_authority(parsed.netloc)
  IN  IF Raised(r_scheme) THEN r_scheme
      ELSE IF Raised(r_auth) THEN r_auth
      ELSE IF pkg_name # <<>> /\ ~pkg_ok THEN EthPMValidationError("InvalidPackageName")
      ELSE IF pkg_name = <<>> /\ parsed.query # <<>>
           THEN EthPMValidationError("MissingPackageName")
      ELSE IF parsed.query # <<>> THEN validate_registry_uri_version(parsed.query)
      ELSE Ok

\* a mutant: first match wins
single_matching_first_wins(all_blockchain_uris, chain) ==
  LET matching_uris == SelectSeq(all_blockchain_uris, LAMBDA u : u \in chain)
  IN  IF matching_uris = <<>> THEN EthPMValidationError("NoMatchingURI")
      ELSE Returned(matching_uris[1])

\* check_if_chain_matches_chain_uri(w3, uri) is a stub: `chain` is the set of
\* URIs the connected chain matches
validate_single_matching_uri(all_blockchain_uris, chain) ==
  LET matching_uris == SelectSeq(all_blockchain_uris, LAMBDA u : u \in chain)
  IN  IF matching_uris = <<>> THEN EthPMValidationError("NoMatchingURI")
      ELSE IF Len(matching_uris) # 1 THEN EthPMValidationError("AmbiguousMatch")
      ELSE Returned(matching_uris[1])

\* bytes.decode("utf-8") of one- and two-byte sequences (the byte alphabet
\* below holds no lead byte of a longer sequence): the code points, or
\* failure on a stray continuation byte or a truncated sequence
RECURSIVE utf8_valid(_)
utf8_valid(b) ==
  IF b = <<>> THEN TRUE
  ELSE IF b[1] < 128 THEN utf8_valid(Tail(b))
  ELSE IF b[1] >= 194 /\ b[1] < 224
       THEN Len(b) >= 2 /\ b[2] >= 128 /\ b[2] < 192 /\ utf8_valid(SubSeq(b, 3, Len(b)))
  ELSE FALSE

RECURSIVE utf8_decode(_)
utf8_decode(b) ==
  IF b = <<>> THEN <<>>
  ELSE IF b[1] < 128 THEN <<b[1]>> \o utf8_decode(Tail(b))
  ELSE <<(b[1] - 192) * 64 + (b[2] - 128)>> \o utf8_decode(SubSeq(b, 3, Len(b)))

\* str.encode("utf-8") of code points below 2048
RECURSIVE utf8_encode(_)
utf8_encode(t) ==
  IF t = <<>> THEN <<>>
  ELSE (IF t[1] < 128 THEN <<t[1]>> ELSE <<192 + (t[1] \div 64), 128 + (t[1] % 64)>>)
       \o utf8_encode(Tail(t))

\* str(n) for n >= 0, as code points
RECURSIVE decimal_str(_)
decimal_str(n) ==
  IF n < 10 THEN <<48 + n>> ELSE decimal_str(n \div 10) \o <<48 + (n % 10)>>

HexChar(n) ==
  CASE n = 0 -> "0" [] n = 1 -> "1" [] n = 2 -> "2" [] n = 3 -> "3" [] n = 4 -> "4"
    [] n = 5 -> "5" [] n = 6 -> "6" [] n = 7 -> "7" [] n = 8 -> "8" [] n = 9 -> "9"
    [] n = 10 -> "a" [] n = 11 -> "b" [] n = 12 -> "c" [] n = 13 -> "d"
    [] n = 14 -> "e" [] n = 15 -> "f"

\* hashlib.sha1(b).hexdigest(), modelled as a collision-free digest: two
\* byte strings have the same digest exactly when they are equal.  The
\* digest is written as the lower-case hex of the hashed bytes.
RECURSIVE sha1_hexdigest(_)
sha1_hexdigest(b) ==
  IF b = <<>> THEN <<>>
  ELSE <<HexChar(b[1] \div 16), HexChar(b[1] % 16)>> \o sha1_hexdigest(Tail(b))

BlobTag == <<98, 108, 111, 98, 32>>

\* "blob " + str(length) + "\0" + text, encoded
git_frame(length, text) == utf8_encode(BlobTag \o decimal_str(length) \o <<0>> \o text)

validate_blob_uri_contents(contents, blob_uri) ==
  LET blob_path == urlparse(blob_uri).path
      segments == Split(blob_path, "/")
      blob_hash == segments[Len(segments)]
  IN  IF ~utf8_valid(contents) THEN UnicodeDecodeError
      ELSE LET contents_str == utf8_decode(contents)
               content_length == Len(contents_str)
           IN  IF sha1_hexdigest(git_frame(content_length, contents_str)) # blob_hash
               THEN EthPMValidationError("ContentHashMismatch")
               ELSE Ok

(***************************************************************************)
(* Calls of the validators of ethpm/validation/uri.py.  Each call is one   *)
(* step: the validators are synchronous and keep no state, so fn, args and *)
(* outcome record the call in progress and what it did, until the caller   *)
(* has taken the outcome (Return).                                         *)
(***************************************************************************)
EnsName == <<"a">> \o DotEth
AuthPieces == {EnsName, ChecksumAddress, <<"a">>, <<":">>, <<"4">>, <<"2">>}
Authorities == {Flatten(ps) : ps \in SeqsUpTo(AuthPieces, MaxAuthPieces)}

UriSchemes == {REGISTRY_URI_SCHEME,
               <<"E", "R", "C", "1", "3", "1", "9">>,
               <<"h", "t", "t", "p">>,
               <<>>}
UriSeps == {<<":", "/", "/">>, <<":">>}
UriAuthorities == {EnsName \o <<":", "4">>, ChecksumAddress \o <<":", "4">>,
                   EnsName \o <<":", "2">>, EnsName \o <<":", "a">>,
                   <<"a", ":", "4">>, LowerCaseAddress \o <<":", "4">>,
                   EnsName, EnsName \o <<":", "4", ":", "2">>, <<>>}
UriPaths == {<<>>, <<"/">>, <<"/", "p">>, <<"/", "/">>, <<"/", "p", "/">>}
UriQueries == {<<>>, <<"?">>,
               <<"?">> \o VersionKey \o <<"=", "4">>,
               <<"?">> \o VersionKey,
               <<"?", "a", "=", "4">>,
               <<"#">> \o VersionKey \o <<"=", "4">>}
RegistryUris ==
  {Flatten(<<s, sep, a, p, q>>) :
     s \in UriSchemes, sep \in UriSeps, a \in UriAuthorities, p \in UriPaths, q \in UriQueries}

QueryPieces == {VersionKey, <<"a">>, <<"=">>, <<"&">>, <<"4">>}
Queries == {Flatten(ps) : ps \in SeqsUpTo(QueryPieces, MaxQueryPieces)}

CandidateUris == {"blockchain://a/block/1", "blockchain://b/block/1", "blockchain://c/block/1"}
CandidateLists == SeqsUpTo(CandidateUris, MaxCandidates)

ByteAlphabet == {97, 195, 169}
Contents == SeqsUpTo(ByteAlphabet, MaxContentLen)
BlobPrefixes == {<<"h", ":", "/", "/", "p", "/">>, <<"h", ":", "/", "/", "p", "/", "b", "/">>}
BlobSuffixes == {<<>>, <<"?", "a">>, <<"/">>}
\* the digests a blob URI may carry for text d: of the frame with d's byte
\* length (git's object hash), and of the frame with d's character count
BlobHashes(d) ==
  {sha1_hexdigest(git_frame(Len(d), utf8_decode(d))),
   sha1_hexdigest(git_frame(Len(utf8_decode(d)), utf8_decode(d)))}

CallValidateRegistryUri ==
  /\ fn = "none"
  /\ \E uri \in RegistryUris, pkg_ok \in BOOLEAN :
       /\ fn' = "validate_registry_uri"
       /\ args' = [uri |-> uri, pkg_ok |-> pkg_ok]
       /\ outcome' = validate_registry_uri(uri, pkg_ok)
       /\ UNCHANGED mw_vars

CallValidateAuthority ==
  /\ fn = "none"
  /\ \E auth \in Authorities :
       /\ fn' = "validate_registry_uri_authority"
       /\ args' = [auth |-> auth]
       /\ outcome' = validate_registry_uri_authority(auth)
       /\ UNCHANGED mw_vars

CallValidateVersion ==
  /\ fn = "none"
  /\ \E query \in Queries :
       /\ fn' = "validate_registry_uri_version"
       /\ args' = [query |-> query]
       /\ outcome' = validate_registry_uri_version(query)
       /\ UNCHANGED mw_vars

CallValidateSingleMatchingUri ==
  /\ fn = "none"
  /\ \E uris \in CandidateLists, chain \in SUBSET CandidateUris :
       /\ fn' = "validate_single_matching_uri"
       /\ args' = [all_blockchain_uris |-> uris, chain |-> chain]
       /\ outcome' = validate_single_matching_uri(uris, chain)
       /\ UNCHANGED mw_vars

CallValidateBlobUriContents ==
  /\ fn = "none"
  /\ \E contents \in Contents, d \in {c \in Contents : utf8_valid(c)},
        prefix \in BlobPrefixes, suffix \in BlobSuffixes :
       \E h \in BlobHashes(d) :
         LET blob_uri == prefix \o h \o suffix
         IN  /\ fn' = "validate_blob_uri_contents"
             /\ args' = [contents |-> contents, blob_uri |-> blob_uri]
             /\ outcome' = validate_blob_uri_contents(contents, blob_uri)
             /\ UNCHANGED mw_vars

\* the caller has the outcome; nothing of the call is retained
Return ==
  /\ fn # "none"
  /\ fn' = "none"
  /\ args' = [none |-> TRUE]
  /\ outcome' = Ok
  /\ UNCHANGED mw_vars

InitUri ==
  /\ fn = "none"
  /\ args = [none |-> TRUE]
  /\ outcome = Ok

NextUri ==
  \/ CallValidateRegistryUri
  \/ CallValidateAuthority
  \/ CallValidateVersion
  \/ CallValidateSingleMatchingUri
  \/ CallValidateBlobUriContents
  \/ Return

(***************************************************************************)
(* web3/middleware/validation.py                                           *)
(*                                                                         *)
(* Python values carry their type.  An int is its sign and its big-endian  *)
(* base-256 magnitude without leading zeros (Python ints are unbounded; an *)
(* extraData of 33 bytes is an int of 33 such digits).  A dict is a        *)
(* function from its keys to values.                                       *)
(***************************************************************************)
PyNone == [type |-> "NoneType"]
PyInt(neg, mag) == [type |-> "int", neg |-> neg, mag |-> mag]
PyStr(chars) == [type |-> "str", chars |-> chars]
PyBytes(b) == [type |-> "bytes", bytes |-> b]
PyList == [type |-> "list"]
PyDict(items) == [type |-> "dict", items |-> items]

RECURSIVE Magnitude(_)
Magnitude(n) == IF n = 0 THEN <<>> ELSE Magnitude(n \div 256) \o <<n % 256>>

SmallInt(n) == IF n < 0 THEN PyInt(TRUE, Magnitude(0 - n)) ELSE PyInt(FALSE, Magnitude(n))

is_null(v) == v.type = "NoneType"
is_not_null(v) == ~is_null(v)

\* dissoc(d, key)
dissoc(d, key) == PyDict([k \in (DOMAIN d.items) \ {key} |-> d.items[k]])

MAX_EXTRADATA_LENGTH == 32

\* int(chain_id) of an int or a str
py_int(v) ==
  IF v.type = "int" THEN Returned(v)
  ELSE IF to_int(v.chars).ok THEN Returned(SmallInt(to_int(v.chars).value))
  ELSE ValueError("invalid literal for int()")

validate_chain_id(web3_chain_id, chain_id) ==
  LET n == py_int(chain_id)
  IN  IF Raised(n) THEN n
      ELSE IF n.value = web3_chain_id THEN Returned(chain_id)
      ELSE ValidationError("chain ID mismatch")

\* len(HexBytes(val)) for a str, int or bytes, or the ValueError of a str that
\* is not hex and of a negative int
HexDigitChars == Digits \cup {"a", "b", "c", "d", "e", "f", "A", "B", "C", "D", "E", "F"}

hexbytes_len(val) ==
  IF val.type = "bytes" THEN Returned(Len(val.bytes))
  ELSE IF val.type = "int"
       THEN IF val.neg THEN ValueError("Cannot convert negative integer to bytes")
            ELSE Returned(IF val.mag = <<>> THEN 1 ELSE Len(val.mag))
  ELSE LET hexstr == val.chars
           prefixed == Len(hexstr) >= 2 /\ hexstr[1] = "0" /\ hexstr[2] \in {"x", "X"}
           non_prefixed_hex == IF prefixed THEN SubSeq(hexstr, 3, Len(hexstr)) ELSE hexstr
           padded_len == Len(non_prefixed_hex) + (Len(hexstr) % 2)
       IN  IF \E k \in 1..Len(non_prefixed_hex) : non_prefixed_hex[k] \notin HexDigitChars
           THEN ValueError("Non-hexadecimal digit found")
           ELSE Returned(padded_len \div 2)

\* a mutant: an extraData of exactly 33 bytes is let through
check_extradata_off_by_one(val) ==
  IF val.type \notin {"str", "int", "bytes"} THEN Returned(val)
  ELSE LET n == hexbytes_len(val)
       IN  IF Raised(n) THEN n
           ELSE IF n.value > MAX_EXTRADATA_LENGTH + 1 THEN ValidationError("extraData too long")
           ELSE Returned(val)

check_extradata_length(val) ==
  IF val.type \notin {"str", "int", "bytes"} THEN Returned(val)
  ELSE LET n == hexbytes_len(val)
       IN  IF Raised(n) THEN n
           ELSE IF n.value > MAX_EXTRADATA_LENGTH THEN ValidationError("extraData too long")
           ELSE Returned(val)

transaction_normalizer(transaction) == dissoc(transaction, "chainId")

\* apply_formatter_at_index(apply_formatters_to_dict({"chainId": ...}), 0)
transaction_param_validator(web3_chain_id, request_params) ==
  IF Len(request_params) < 1 THEN IndexError
  ELSE LET transaction == request_params[1]
           checked == IF "chainId" \in DOMAIN transaction.items /\ is_not_null(web3_chain_id)
                      THEN validate_chain_id(web3_chain_id, transaction.items["chainId"])
                      ELSE Ok
       IN  IF Raised(checked) THEN checked ELSE Returned(request_params)

BLOCK_VALIDATORS == {"extraData"}

\* apply_formatter_if(is_not_null, apply_formatters_to_dict(BLOCK_VALIDATORS)):
\* the first formatter that raises ends the call, otherwise the dict is
\* rebuilt with each validated field replaced by its formatter's value
block_validator(result) ==
  IF is_null(result) THEN Returned(result)
  ELSE LET keys == BLOCK_VALIDATORS \cap DOMAIN result.items
           failing == {k \in keys : Raised(check_extradata_length(result.items[k]))}
       IN  IF failing # {}
           THEN check_extradata_length(result.items[CHOOSE k \in failing : TRUE])
           ELSE Returned(PyDict([k \in DOMAIN result.items |->
                                   IF k \in keys
                                   THEN check_extradata_length(result.items[k]).value
                                   ELSE result.items[k]]))

\* a mutant: compose in the other order, the normalizer runs first
chain_id_normalize_first(web3_chain_id, request_params) ==
  IF Len(request_params) < 1 THEN IndexError
  ELSE transaction_param_validator(
         web3_chain_id,
         [request_params EXCEPT ![1] = transaction_normalizer(request_params[1])])

\* compose(apply_formatter_at_index(transaction_normalizer, 0),
\*         transaction_param_validator(web3)): the validator runs first
chain_id_validator(web3_chain_id, request_params) ==
  LET validated == transaction_param_validator(web3_chain_id, request_params)
  IN  IF Raised(validated) THEN validated
      ELSE Returned([validated.value EXCEPT ![1] = transaction_normalizer(validated.value[1])])

\* build_validators_with_web3
request_formatter_methods == {"eth_sendTransaction", "eth_estimateGas", "eth_call"}
result_formatter_methods == {"eth_getBlockByHash", "eth_getBlockByNumber"}

(***************************************************************************)
(* One request through the validation middleware: the request formatter of *)
(* the method, then the dispatch to the node, then the result formatter.   *)
(***************************************************************************)
Rep(x, n) == [i \in 1..n |-> x]

ChainIdValues == {SmallInt(1), SmallInt(4), PyStr(<<"4">>), PyStr(<<"0", "x", "4">>)}
NodeChainIds == {PyNone, SmallInt(1), SmallInt(4)}

Transactions ==
  {PyDict([k \in {"to"} |-> PyStr(<<"a">>)]), PyDict(<<>>)}
  \cup {PyDict([k \in {"to", "chainId"} |-> IF k = "to" THEN PyStr(<<"a">>) ELSE c]) :
          c \in ChainIdValues}
  \cup {PyDict([k \in {"chainId"} |-> c]) : c \in ChainIdValues}

TransactionParams ==
  {<<>>} \cup {<<t>> : t \in Transactions}
         \cup {<<t, PyStr(<<"l", "a", "t", "e", "s", "t">>)>> : t \in Transactions}

ExtraDatas ==
  {PyStr(<<"0", "x">> \o Rep("a", n)) : n \in 0..(2 * MaxDataLen)}
  \cup {PyStr(Rep("A", n)) : n \in 0..(2 * MaxDataLen)}
  \cup {PyStr(<<"0", "x", "z">>), PyStr(<<"z", "z">>)}
  \cup {PyBytes(Rep(0, n)) : n \in 0..MaxDataLen}
  \cup {PyInt(FALSE, Rep(1, n)) : n \in 0..MaxDataLen}
  \cup {PyInt(TRUE, <<1>>), PyNone, PyList}

Blocks ==
  {PyDict([k \in {"number"} |-> PyStr(<<"0", "x", "1">>)])}
  \cup {PyDict([k \in {"extraData"} |-> e]) : e \in ExtraDatas}
  \cup {PyDict([k \in {"number", "extraData"} |->
                  IF k = "number" THEN PyStr(<<"0", "x", "1">>) ELSE e]) : e \in ExtraDatas}

ResultResponse(v) == [kind |-> "result", result |-> v]
ErrorResponse == [kind |-> "error", result |-> PyNone]

Methods == request_formatter_methods \cup result_formatter_methods \cup {"eth_blockNumber"}

ParamsOf(m) ==
  IF m \in request_formatter_methods THEN TransactionParams
  ELSE IF m \in result_formatter_methods
       THEN {<<PyStr(<<"l", "a", "t", "e", "s", "t">>), PyStr(<<"f">>)>>}
       ELSE {<<>>}

ResponsesOf(m) ==
  IF m \in result_formatter_methods
  THEN {ResultResponse(b) : b \in Blocks} \cup {ResultResponse(PyNone), ErrorResponse}
  ELSE {ResultResponse(PyStr(<<"0", "x", "1">>)), ErrorResponse}

NotSent == [dispatched |-> FALSE]
Sent(m, p) == [dispatched |-> TRUE, method |-> m, params |-> p]

\* middleware(method, params) is called
Request ==
  /\ pc \in {"idle", "done"}
  /\ \E m \in Methods, n \in NodeChainIds :
       \E p \in ParamsOf(m) :
         /\ method' = m
         /\ params' = p
         /\ node_chain_id' = n
  /\ pc' = "request"
  /\ sent' = NotSent
  /\ response' = ErrorResponse
  /\ mw_outcome' = Ok
  /\ UNCHANGED uri_vars

\* if method in request_formatters: params = formatter(params)
FormatRequest ==
  /\ pc = "request"
  /\ IF method \in request_formatter_methods
     THEN LET formatted == chain_id_validator(node_chain_id, params)
          IN  IF Raised(formatted)
              THEN /\ mw_outcome' = formatted
                   /\ sent' = sent
                   /\ pc' = "done"
              ELSE /\ sent' = Sent(method, formatted.value)
                   /\ mw_outcome' = mw_outcome
                   /\ pc' = "dispatch"
     ELSE /\ sent' = Sent(method, params)
          /\ mw_outcome' = mw_outcome
          /\ pc' = "dispatch"
  /\ UNCHANGED <<method, params, node_chain_id, response>>
  /\ UNCHANGED uri_vars

\* response = make_request(method, params)
Dispatch ==
  /\ pc = "dispatch"
  /\ \E r \in ResponsesOf(method) : response' = r
  /\ pc' = "response"
  /\ UNCHANGED <<method, params, node_chain_id, sent, mw_outcome>>
  /\ UNCHANGED uri_vars

\* if 'result' in response and method in result_formatters:
\*     response['result'] = formatter(response['result'])
FormatResult ==
  /\ pc = "response"
  /\ IF response.kind = "result" /\ method \in result_formatter_methods
     THEN LET formatted == block_validator(response.result)
          IN  mw_outcome' = IF Raised(formatted) THEN formatted
                            ELSE Returned(ResultResponse(formatted.value))
     ELSE mw_outcome' = Returned(response)
  /\ pc' = "done"
  /\ UNCHANGED <<method, params, node_chain_id, sent, response>>
  /\ UNCHANGED uri_vars

InitMw ==
  /\ pc = "idle"
  /\ method = "none"
  /\ params = <<>>
  /\ node_chain_id = PyNone
  /\ sent = NotSent
  /\ response = ErrorResponse
  /\ mw_outcome = Ok

NextMw == Request \/ FormatRequest \/ Dispatch \/ FormatResult

Init == InitUri /\ InitMw

Next == NextUri \/ NextMw

Spec == Init /\ [][Next]_vars

SpecUri == Init /\ [][NextUri]_vars

SpecMw == Init /\ [][NextMw]_vars

(***************************************************************************)
(* Properties.                                                             *)
(***************************************************************************)
Colons(s) == Cardinality({i \in 1..Len(s) : s[i] = ":"})

InRegistryUri == fn = "validate_registry_uri"
InAuthority == fn = "validate_registry_uri_authority"
Parsed == urlparse(args.uri)
PkgName == Strip(Parsed.path, "/")
AuthorityOutcome == validate_registry_uri_authority(Parsed.netloc)

\* C1: validate_registry_uri raises the error of the first failing check in
\* the order scheme, authority, package-name grammar, empty package name
\* with a query, version key; a wrong scheme gives InvalidURIScheme whatever
\* the rest is, and a malformed authority is reported even when the package
\* name is empty and a query is present.
C1_FailFastOrder ==
  InRegistryUri =>
    /\ Parsed.scheme # REGISTRY_URI_SCHEME
         => outcome = EthPMValidationError("InvalidURIScheme")
    /\ Parsed.scheme = REGISTRY_URI_SCHEME /\ Colons(Parsed.netloc) # 1
         => outcome = EthPMValidationError("MalformedAuthority")
    /\ Parsed.scheme = REGISTRY_URI_SCHEME /\ Raised(AuthorityOutcome)
         => outcome = AuthorityOutcome
    /\ Parsed.scheme = REGISTRY_URI_SCHEME /\ ~Raised(AuthorityOutcome)
         => outcome =
              IF PkgName # <<>> /\ ~args.pkg_ok
              THEN EthPMValidationError("InvalidPackageName")
              ELSE IF PkgName = <<>> /\ Parsed.query # <<>>
              THEN EthPMValidationError("MissingPackageName")
              ELSE IF Parsed.query # <<>>
              THEN validate_registry_uri_version(Parsed.query)
              ELSE Ok

C1_Witness ==
  /\ InRegistryUri
  /\ Parsed.scheme = REGISTRY_URI_SCHEME
  /\ Colons(Parsed.netloc) # 1
  /\ PkgName = <<>>
  /\ Parsed.query # <<>>
  /\ outcome = EthPMValidationError("MalformedAuthority")

AuthParts == Split(args.auth, ":")

\* C2: for an authority with exactly one ':' and a valid identity, a chain
\* id that is unsupported or that does not parse as an integer fails with
\* the validation error UnsupportedChainID and with no other kind of error.
C2_UnparsableIsUnsupported ==
  /\ InAuthority
  /\ Colons(args.auth) = 1
  /\ (is_ens_domain(AuthParts[1]) \/ is_checksum_address(AuthParts[1]))
  /\ (~to_int(AuthParts[2]).ok \/ to_int(AuthParts[2]).value \notin SUPPORTED_CHAIN_IDS)
  => outcome = EthPMValidationError("UnsupportedChainID")

\* C3: an authority that does not hold exactly one ':' fails with
\* MalformedAuthority, whatever the identity and chain-id checks would say.
C3_MalformedAuthority ==
  InAuthority /\ Colons(args.auth) # 1
    => outcome = EthPMValidationError("MalformedAuthority")

C3_Witness ==
  /\ InAuthority
  /\ Colons(args.auth) = 2
  /\ is_checksum_address(AuthParts[1])
  /\ is_supported_chain_id(to_int(AuthParts[2]).value)
  /\ to_int(AuthParts[2]).ok
  /\ outcome = EthPMValidationError("MalformedAuthority")

\* C4: with a valid scheme and authority, an empty package name with a query
\* fails with MissingPackageName and an empty package name without a query
\* succeeds; no accepted URI has a query and no package name.
C4_NoVersionWithoutName ==
  InRegistryUri =>
    /\ Parsed.scheme = REGISTRY_URI_SCHEME /\ ~Raised(AuthorityOutcome) /\ PkgName = <<>>
         => outcome = IF Parsed.query # <<>>
                      THEN EthPMValidationError("MissingPackageName")
                      ELSE Ok
    /\ outcome = Ok /\ Parsed.query # <<>> => PkgName # <<>>

C4_Witness ==
  /\ InRegistryUri
  /\ Parsed.scheme = REGISTRY_URI_SCHEME
  /\ ~Raised(AuthorityOutcome)
  /\ PkgName = <<>>
  /\ VersionKey \in parse_qs_keys(Parsed.query, TRUE)
  /\ outcome = EthPMValidationError("MissingPackageName")

MatchingIndexes ==
  {i \in 1..Len(args.all_blockchain_uris) : args.all_blockchain_uris[i] \in args.chain}

\* C5: validate_single_matching_uri fails with NoMatchingURI when no
\* candidate matches, with AmbiguousMatch when two or more entries match
\* (duplicates counted), and returns the entry when exactly one matches.
C5_SingleMatch ==
  fn = "validate_single_matching_uri" =>
    /\ Cardinality(MatchingIndexes) = 0 => outcome = EthPMValidationError("NoMatchingURI")
    /\ Cardinality(MatchingIndexes) >= 2 => outcome = EthPMValidationError("AmbiguousMatch")
    /\ Cardinality(MatchingIndexes) = 1
         => /\ ~Raised(outcome)
            /\ \A i \in MatchingIndexes : outcome.value = args.all_blockchain_uris[i]
            /\ outcome.value \in args.chain

C5_Witness ==
  /\ fn = "validate_single_matching_uri"
  /\ Len(args.all_blockchain_uris) = 3
  /\ Cardinality(MatchingIndexes) = 2
  /\ args.all_blockchain_uris[1] = args.all_blockchain_uris[3]
  /\ outcome = EthPMValidationError("AmbiguousMatch")

ByteLengthFrame(contents) == BlobTag \o decimal_str(Len(contents)) \o <<0>> \o contents
LastSegment(uri) ==
  LET segments == Split(urlparse(uri).path, "/") IN segments[Len(segments)]

\* C6: for contents that decode as text, validate_blob_uri_contents returns
\* normally exactly when the digest of "blob " + decimal byte length + NUL +
\* contents equals the last path segment of the URI, and fails with
\* ContentHashMismatch otherwise.
C6_ByteLengthFrame ==
  fn = "validate_blob_uri_contents" /\ utf8_valid(args.contents) =>
    IF sha1_hexdigest(ByteLengthFrame(args.contents)) = LastSegment(args.blob_uri)
    THEN outcome = Ok
    ELSE outcome = EthPMValidationError("ContentHashMismatch")

\* a pair starts at position i of q and its key is 'version'
VersionPairAt(q, i) ==
  /\ i + 6 <= Len(q)
  /\ SubSeq(q, i, i + 6) = VersionKey
  /\ (i = 1 \/ q[i - 1] = "&")
  /\ (i + 6 = Len(q) \/ q[i + 7] \in {"=", "&"})

\* C7: validate_registry_uri_version fails with MissingVersionKey exactly
\* when no key=value pair of the query has the key 'version'; a 'version'
\* key with a blank value is accepted, whatever the value is.
C7_VersionKeyOnly ==
  fn = "validate_registry_uri_version" =>
    outcome = IF \E i \in 1..Len(args.query) : VersionPairAt(args.query, i)
              THEN Ok
              ELSE EthPMValidationError("MissingVersionKey")

C7_Witness ==
  /\ fn = "validate_registry_uri_version"
  /\ args.query = VersionKey \o <<"=">>
  /\ outcome = Ok

\* C8: for an authority with exactly one ':', the identity is rejected with
\* InvalidAuthorityIdentity exactly when neither is_ens_domain nor
\* is_checksum_address holds of it, before any chain-id failure.
C8_IdentityDisjunction ==
  InAuthority /\ Colons(args.auth) = 1 =>
    (outcome = EthPMValidationError("InvalidAuthorityIdentity")
       <=> ~(is_ens_domain(AuthParts[1]) \/ is_checksum_address(AuthParts[1])))

C8_Witness ==
  /\ InAuthority
  /\ Colons(args.auth) = 1
  /\ ~is_ens_domain(AuthParts[1]) /\ ~is_checksum_address(AuthParts[1])
  /\ AuthParts[1] # <<>>
  /\ to_int(AuthParts[2]).ok
  /\ ~is_supported_chain_id(to_int(AuthParts[2]).value)
  /\ outcome = EthPMValidationError("InvalidAuthorityIdentity")

IsTxRequest == method \in request_formatter_methods /\ Len(params) >= 1
HasChainId == IsTxRequest /\ "chainId" \in DOMAIN params[1].items
DeclaredChainId == py_int(params[1].items["chainId"])

\* the transaction declares a chain id other than the one the node reports
ChainMismatch ==
  /\ HasChainId
  /\ is_not_null(node_chain_id)
  /\ ~Raised(DeclaredChainId)
  /\ DeclaredChainId.value # node_chain_id

\* C9: a request of eth_sendTransaction, eth_estimateGas or eth_call whose
\* transaction declares a chain id other than the non-null id the node
\* reports fails with ValidationError and is never dispatched; the check
\* sees the chainId before the key is removed, so a transaction with a
\* chainId is dispatched (without the key) only when the node's id is null
\* or equals the declared id.
C9_ChainIdCheckedBeforeDispatch ==
  /\ ChainMismatch =>
       /\ pc \in {"request", "done"}
       /\ ~sent.dispatched
       /\ pc = "done" => mw_outcome = ValidationError("chain ID mismatch")
  /\ HasChainId /\ sent.dispatched =>
       /\ is_null(node_chain_id) \/ DeclaredChainId = Returned(node_chain_id)
       /\ "chainId" \notin DOMAIN sent.params[1].items
       /\ sent.params[1] = dissoc(params[1], "chainId")

C9_Witness ==
  /\ ChainMismatch
  /\ pc = "done"
  /\ params[1].items["chainId"].type = "str"
  /\ mw_outcome = ValidationError("chain ID mismatch")

IsBlockResult ==
  /\ pc = "done"
  /\ method \in result_formatter_methods
  /\ response.kind = "result"

HasExtraData == is_not_null(response.result) /\ "extraData" \in DOMAIN response.result.items
ExtraData == response.result.items["extraData"]
Sized(v) == v.type \in {"str", "int", "bytes"}

\* C10 as stated: a non-null block whose extraData is a str, int or bytes
\* value of more than 32 bytes fails with ValidationError, and in every
\* other case the result is returned unchanged.
C10_Original ==
  IsBlockResult =>
    IF HasExtraData /\ Sized(ExtraData) /\ ~Raised(hexbytes_len(ExtraData))
       /\ hexbytes_len(ExtraData).value > MAX_EXTRADATA_LENGTH
    THEN mw_outcome = ValidationError("extraData too long")
    ELSE mw_outcome = Returned(response)

\* C10, amended: a non-null block whose extraData is a str, int or bytes
\* value of more than 32 bytes fails with ValidationError; one whose
\* extraData is a str that is not hexadecimal or a negative int fails with
\* the ValueError of the conversion to bytes; in every other case the
\* result is returned unchanged.
C10_ExtraDataLength ==
  IsBlockResult =>
    IF HasExtraData /\ Sized(ExtraData) /\ Raised(hexbytes_len(ExtraData))
    THEN mw_outcome.exc = "ValueError"
    ELSE IF HasExtraData /\ Sized(ExtraData)
            /\ hexbytes_len(ExtraData).value > MAX_EXTRADATA_LENGTH
    THEN mw_outcome = ValidationError("extraData too long")
    ELSE mw_outcome = Returned(response)

C10_Witness ==
  /\ IsBlockResult
  /\ HasExtraData
  /\ ExtraData.type = "bytes"
  /\ Len(ExtraData.bytes) = MAX_EXTRADATA_LENGTH + 1
  /\ mw_outcome = ValidationError("extraData too long")

====
